---- MODULE Spec2Model ----
(***************************************************************************)
(* The video composer hook (useVideoComposer): compose(), cancel() and the *)
(* callbacks compose() registers on the recorder and on the audio source,  *)
(* as a state machine over the runs one hook instance has been asked for.  *)
(*                                                                         *)
(* The browser objects are modelled by the behaviour their specifications  *)
(* give them: a MediaRecorder is inactive until start(), recording until   *)
(* stop() or a failure, and delivers exactly one "stop" event after either;*)
(* a promise settles at most once, later resolve/reject calls are ignored. *)
(* MediaRecorder.stop() on an inactive recorder is a no-op in current      *)
(* browsers and throws InvalidStateError in older ones: stopThrows picks   *)
(* the host's behaviour.                                                   *)
(***************************************************************************)
EXTENDS Integers, Sequences, FiniteSets, TLC

\* Bounds of the model.
MaxRuns == 2        \* compose() calls made on one hook instance
MaxDuration == 2    \* longest decoded audio track, in clock units (seconds)
MaxStaleStops == 2  \* stop() calls one recorder takes while it is not recording
MaxSegments == 3    \* longest segment list given to mapSegmentsToDuration
MaxWeight == 2      \* largest segment.duration (weight) of a segment
MaxTotal == 4       \* largest totalDuration (milliseconds) given to mapSegmentsToDuration
MaxChunks == 3      \* dataavailable events one recorder delivers
MaxSubmits == 2     \* form submissions the page takes

Runs == 1..MaxRuns
Durations == 1..MaxDuration

\* Messages of the errors the code raises or passes on.
NoWindowMsg == "Video composition must run in the browser"
NoCanvasMsg == "Unable to acquire canvas context"
DefaultRecorderMsg == "MediaRecorder error"
DefaultRenderMsg == "Render failed"
AtobMsg == "InvalidCharacterError"
NoMsg == "null"

\* Messages decodeAudioData may fail with.
DecodeMsgs == {"EncodingError", "Unable to decode audio data"}
\* event.error.message of a recorder error event; "" is a missing message.
RecorderErrors == {"", "codec failure"}
\* What the start-up block (recorder.start, renderLoop, audioSource.start) may throw.
StartErrors ==
    [recorderStart |-> [isError |-> TRUE, message |-> "NotSupportedError"],
     renderLoop    |-> [isError |-> TRUE, message |-> "TypeError: activeSegment is undefined"],
     audioStart    |-> [isError |-> TRUE, message |-> "InvalidStateError: cannot start"]]
\* What MediaRecorder.stop() throws on an inactive recorder in a host where it throws.
StopError == [isError |-> TRUE, message |-> "InvalidStateError: recorder is inactive"]
\* What the MediaRecorder constructor throws for an unsupported mime type.
CtorMsg == "NotSupportedError: mimeType"

VARIABLES
    hasWindow,    \* typeof window !== "undefined"
    stopThrows,   \* the host's MediaRecorder.stop() throws when inactive
    isRendering,  \* useState(false)
    error,        \* useState<string | null>(null)
    recorderRef,  \* useRef<MediaRecorder | null>(null): 0 or the run whose recorder it holds
    runs,         \* per compose() call: position, resources, promise, event trace
    cancelThrew,  \* some cancel() call raised an exception to its caller
    urls,         \* object URLs created so far
    mapping,      \* one evaluation of mapSegmentsToDuration and of the render loop's
                  \* choice of the active segment: inputs, windows, choice
    page          \* the Home page: its step and the handleSubmit calls in progress

vars == <<hasWindow, stopThrows, isRendering, error, recorderRef, runs, cancelThrew,
          urls, mapping, page>>

----------------------------------------------------------------------------
\* Numbers of the timing computation. The code computes in floating point; the
\* model computes the same quotients and products exactly, as fractions n/d, and
\* keeps the one special value the computation can produce from weights >= 0:
\* 0/0 = NaN (a zero weight sum makes every cumulative weight zero too).

NaN == [nan |-> TRUE, n |-> 0, d |-> 1]
Frac(n, d) == [nan |-> FALSE, n |-> n, d |-> d]

\* a / b
Div(a, b) == IF b = 0 THEN NaN ELSE Frac(a, b)
\* x * t
Mul(x, t) == IF x.nan THEN NaN ELSE Frac(x.n * t, x.d)
\* x === y: false whenever a side is NaN
NumEq(x, y) == ~x.nan /\ ~y.nan /\ x.n * y.d = y.n * x.d
\* x <= y
NumLeq(x, y) == ~x.nan /\ ~y.nan /\ x.n * y.d <= y.n * x.d
\* x === v for an integer v
IsInt(x, v) == ~x.nan /\ x.n = v * x.d
\* elapsed >= x and elapsed < x for an integer elapsed: false when x is NaN
ElapsedGeq(elapsed, x) == ~x.nan /\ elapsed * x.d >= x.n
ElapsedLt(elapsed, x) == ~x.nan /\ elapsed * x.d < x.n

\* weights[1] + ... + weights[k]
RECURSIVE SumTo(_, _)
SumTo(weights, k) == IF k = 0 THEN 0 ELSE SumTo(weights, k - 1) + weights[k]

\* mapSegmentsToDuration with start taken after the weight was accumulated.
mapSegmentsStartAfterAdd(weights, totalDuration) ==
    LET totalScriptDuration == SumTo(weights, Len(weights))
    IN  [i \in 1..Len(weights) |->
            [index  |-> i - 1,
             weight |-> weights[i],
             window |-> <<Mul(Div(SumTo(weights, i), totalScriptDuration), totalDuration),
                          Mul(Div(SumTo(weights, i), totalScriptDuration), totalDuration)>>]]

\* mapSegmentsToDuration(payload, totalDuration), the payload given by its segments'
\* weights: one timed segment per segment, in order, with its 0-based index.
mapSegmentsToDuration(weights, totalDuration) ==
    LET totalScriptDuration == SumTo(weights, Len(weights))
    IN  [i \in 1..Len(weights) |->
            [index  |-> i - 1,
             weight |-> weights[i],
             window |-> <<Mul(Div(SumTo(weights, i - 1), totalScriptDuration), totalDuration),
                          Mul(Div(SumTo(weights, i), totalScriptDuration), totalDuration)>>]]

\* elapsed >= segment.window[0] && elapsed < segment.window[1]
InWindow(segment, elapsed) ==
    /\ ElapsedGeq(elapsed, segment.window[1])
    /\ ElapsedLt(elapsed, segment.window[2])

\* The choice with a closed window end: elapsed <= segment.window[1].
ActiveIndexClosedEnd(segments, elapsed) ==
    LET hits == {i \in DOMAIN segments :
                    /\ ElapsedGeq(elapsed, segments[i].window[1])
                    /\ ~segments[i].window[2].nan
                    /\ elapsed * segments[i].window[2].d <= segments[i].window[2].n}
    IN  IF hits # {} THEN (CHOOSE i \in hits : \A j \in hits : i <= j) - 1
        ELSE Len(segments) - 1

\* segments.find(...) ?? segments[segments.length - 1], as the 0-based index of the
\* segment chosen; -1 is undefined (an empty list has no last element).
ActiveIndex(segments, elapsed) ==
    LET hits == {i \in DOMAIN segments : InWindow(segments[i], elapsed)}
    IN  IF hits # {} THEN (CHOOSE i \in hits : \A j \in hits : i <= j) - 1
        ELSE Len(segments) - 1

\* A hue that is not reduced modulo 360.
HueNoWrap(hueBase, index) == hueBase + index * 32

\* const hue = (hueBase + activeSegment.index * 32) % 360
Hue(hueBase, index) == (hueBase + index * 32) % 360

\* The values of Math.floor(Math.random() * 360) followed: the ends of 0..359 and
\* the values around which adding 32 or 64 passes 360.
HueBases == {0, 1, 295, 296, 327, 328, 359}

NoMapping == [pc |-> "idle", weights |-> <<>>, total |-> 0, segments |-> <<>>,
              elapsed |-> 0, active |-> -1, threw |-> FALSE, hueBase |-> 0, hue |-> -1]

----------------------------------------------------------------------------
\* The promise compose() returns.

NoHandle == [state |-> "none", message |-> NoMsg, videoUrl |-> 0,
             durationSeconds |-> 0, settles |-> 0]

\* resolve(value) with no check of the state: a promise that could settle twice.
ResolveUnguarded(h, url, dur) ==
    [h EXCEPT !.state = "resolved", !.videoUrl = url, !.durationSeconds = dur,
              !.settles = @ + 1]

\* resolve({videoUrl, durationSeconds}): ignored once the promise is settled.
Resolve(h, url, dur) ==
    IF h.state = "pending"
    THEN [h EXCEPT !.state = "resolved", !.videoUrl = url, !.durationSeconds = dur,
                   !.settles = @ + 1]
    ELSE h

\* reject(new Error(message)), or the async function throwing: ignored once settled.
Reject(h, msg) ==
    IF h.state = "pending"
    THEN [h EXCEPT !.state = "rejected", !.message = msg, !.settles = @ + 1]
    ELSE h

----------------------------------------------------------------------------
\* One run of compose().

NoRun == [pc |-> "idle", ctx |-> "none", rec |-> "none", audio |-> "none",
          duration |-> 0, elapsed |-> 0, handle |-> NoHandle, cancelled |-> FALSE,
          staleStops |-> 0, trace |-> <<>>, loop |-> "none", drawnAt |-> -1,
          emitted |-> <<>>, recordedChunks |-> <<>>, blob |-> <<>>,
          cancelSeen |-> FALSE]

\* The bytes of new Blob(parts): the parts one after the other.
RECURSIVE Blob(_)
Blob(parts) == IF parts = <<>> THEN <<>> ELSE Head(parts) \o Blob(Tail(parts))

Log(run, events) == [run EXCEPT !.trace = @ \o events]

\* A run is active from the call of compose() until its promise settles.
Active(run) == run.handle.state = "pending"
AnyActive == \E r \in Runs : Active(runs[r])

\* compose() is called for run r: runs are numbered in call order.
NextToCall(r) ==
    /\ runs[r].pc = "idle"
    /\ IF r = 1 THEN TRUE ELSE runs[r - 1].pc # "idle"

\* The run after recorder.stop() was invoked on its recorder: a recording recorder
\* goes inactive and its stopped signal is queued; on any other the call has no
\* effect on the recorder and is only counted.
RecorderStop(run) ==
    IF run.rec = "recording"
    THEN Log([run EXCEPT !.rec = "stopping"], <<"stop">>)
    ELSE [run EXCEPT !.staleStops = @ + 1]

\* recorder.stop() raises InvalidStateError on this run's recorder.
StopRaises(run) == stopThrows /\ run.rec # "recording"

\* (event.error && event.error.message) || "MediaRecorder error"
RecorderMessage(e) == IF e # "" THEN e ELSE DefaultRecorderMsg

\* compositionError instanceof Error ? compositionError.message : "Render failed"
CatchMessage(e) == IF e.isError THEN e.message ELSE DefaultRenderMsg

----------------------------------------------------------------------------
\* compose(): lines 105-210.

\* The caller of compose(). The page is off where compose() is called by any
\* client of the hook; where it is on, compose() is called only by a handleSubmit
\* whose request has completed, in the same turn as setStep("rendering").
Pipes == 1..MaxSubmits

NoPipe == [pc |-> "idle", run |-> 0]
NoPage == [on |-> FALSE, step |-> "idle", pipes |-> [p \in Pipes |-> NoPipe]]

Callers == IF page.on THEN {p \in Pipes : page.pipes[p].pc = "planning"} ELSE {0}

\* The page after handleSubmit p called compose() for run r.
Called(p, r) ==
    IF p = 0 THEN page
    ELSE [page EXCEPT !.step = "rendering", !.pipes[p] = [pc |-> "rendering", run |-> r]]

CallerMoves(r) == \E p \in Callers : page' = Called(p, r)

\* The promise of a compose() call that has just been made.
NewHandle == [NoHandle EXCEPT !.state = "pending"]

\* The async function throws: its promise is rejected and nothing else runs.
Throw(run, msg) ==
    Log([run EXCEPT !.pc = "thrown", !.handle = Reject(@, msg)], <<"reject">>)

\* compose() that checks for the browser only after its two setState calls.
ComposeNoWindowSetsState(r) ==
    /\ NextToCall(r)
    /\ ~hasWindow
    /\ isRendering' = TRUE
    /\ error' = NoMsg
    /\ runs' = [runs EXCEPT ![r] = Throw([@ EXCEPT !.handle = NewHandle], NoWindowMsg)]
    /\ CallerMoves(r)
    /\ UNCHANGED <<mapping, hasWindow, stopThrows, recorderRef, cancelThrew, urls>>

\* compose() outside a browser: throws before touching any state.
ComposeNoWindow(r) ==
    /\ NextToCall(r)
    /\ ~hasWindow
    /\ runs' = [runs EXCEPT ![r] = Throw([@ EXCEPT !.handle = NewHandle], NoWindowMsg)]
    /\ CallerMoves(r)
    /\ UNCHANGED <<mapping, hasWindow, stopThrows, isRendering, error, recorderRef, cancelThrew,
                   urls>>

\* compose() when canvas.getContext("2d") returns null: throws after the two setState calls.
ComposeNoCanvas(r) ==
    /\ NextToCall(r)
    /\ hasWindow
    /\ isRendering' = TRUE
    /\ error' = NoMsg
    /\ runs' = [runs EXCEPT ![r] = Throw([@ EXCEPT !.handle = NewHandle], NoCanvasMsg)]
    /\ CallerMoves(r)
    /\ UNCHANGED <<mapping, hasWindow, stopThrows, recorderRef, cancelThrew, urls>>

\* compose() up to its first await: state set, canvas and AudioContext created.
ComposeStart(r) ==
    /\ NextToCall(r)
    /\ hasWindow
    /\ isRendering' = TRUE
    /\ error' = NoMsg
    /\ runs' = [runs EXCEPT ![r] =
                   [@ EXCEPT !.pc = "resume", !.ctx = "running", !.handle = NewHandle]]
    /\ CallerMoves(r)
    /\ UNCHANGED <<mapping, hasWindow, stopThrows, recorderRef, cancelThrew, urls>>

\* audioContext.resume() settles, the base64 text decodes, decodeAudioData is called.
ResumeDone(r) ==
    /\ runs[r].pc = "resume"
    /\ runs' = [runs EXCEPT ![r].pc = "decode"]
    /\ UNCHANGED <<page, mapping, hasWindow, stopThrows, isRendering, error, recorderRef, cancelThrew,
                   urls>>

\* audioContext.resume() settles and atob() throws on text that is not base64.
AtobFail(r) ==
    /\ runs[r].pc = "resume"
    /\ runs' = [runs EXCEPT ![r] = Throw(@, AtobMsg)]
    /\ UNCHANGED <<page, mapping, hasWindow, stopThrows, isRendering, error, recorderRef, cancelThrew,
                   urls>>

\* decodeAudioData rejects with message m.
DecodeFail(r, m) ==
    /\ runs[r].pc = "decode"
    /\ runs' = [runs EXCEPT ![r] = Throw(@, m)]
    /\ UNCHANGED <<page, mapping, hasWindow, stopThrows, isRendering, error, recorderRef, cancelThrew,
                   urls>>

\* decodeAudioData gives a track of duration d and new MediaRecorder(...) throws.
RecorderCtorFail(r, d) ==
    /\ runs[r].pc = "decode"
    /\ runs' = [runs EXCEPT ![r] = Throw([@ EXCEPT !.duration = d], CtorMsg)]
    /\ UNCHANGED <<page, mapping, hasWindow, stopThrows, isRendering, error, recorderRef, cancelThrew,
                   urls>>

\* decodeAudioData gives a track of duration d; the rest of compose() runs without
\* an exception: recorder created and started, first frame drawn, playback started,
\* onstop, onerror and onended registered.
StartOk(r, d) ==
    /\ runs[r].pc = "decode"
    /\ recorderRef' = r
    /\ runs' = [runs EXCEPT ![r] =
                   [@ EXCEPT !.pc = "returned", !.rec = "recording",
                             !.audio = "playing", !.duration = d, !.elapsed = 0,
                             !.loop = "scheduled", !.drawnAt = 0]]
    /\ UNCHANGED <<page, mapping, hasWindow, stopThrows, isRendering, error, cancelThrew, urls>>

\* The run at the entry of the catch block, when step `which` of the try block threw.
\* renderLoop() had drawn its first frame and scheduled the next only when it was
\* audioSource.start() that threw.
AtCatch(run, d, which) ==
    [run EXCEPT !.pc = "returned", !.duration = d,
                !.rec = IF which = "recorderStart" THEN "inactive" ELSE "recording",
                !.loop = IF which = "audioStart" THEN "scheduled" ELSE "none",
                !.drawnAt = IF which = "audioStart" THEN 0 ELSE -1]

\* The catch block run to its end: stop, close, setIsRendering, setError, reject.
CatchCompleted(run, e) ==
    Log([RecorderStop(run) EXCEPT !.ctx = "closed",
                                  !.handle = Reject(@, CatchMessage(e))],
        <<"close", "reject">>)

\* The catch block cut short by recorder.stop() throwing: the promise executor
\* throws, which rejects the promise with what stop() threw.
CatchAborted(run) ==
    Log([RecorderStop(run) EXCEPT !.handle = Reject(@, StopError.message)], <<"reject">>)

\* decodeAudioData gives a track of duration d and step `which` of the try block throws.
StartFail(r, d, which) ==
    /\ runs[r].pc = "decode"
    /\ recorderRef' = r
    /\ LET run == AtCatch(runs[r], d, which)
           e == StartErrors[which]
       IN  IF StopRaises(run)
           THEN /\ runs' = [runs EXCEPT ![r] = CatchAborted(run)]
                /\ UNCHANGED <<isRendering, error>>
           ELSE /\ runs' = [runs EXCEPT ![r] = CatchCompleted(run, e)]
                /\ isRendering' = FALSE
                /\ error' = CatchMessage(e)
    /\ UNCHANGED <<page, mapping, hasWindow, stopThrows, cancelThrew, urls>>

----------------------------------------------------------------------------
\* The callbacks of a run and cancel().

\* The time since renderStart matters to a run while its track plays or its render
\* loop is scheduled, up to the decoded duration.
Advancing(run) ==
    /\ run.audio = "playing" \/ run.loop = "scheduled"
    /\ run.elapsed < run.duration

\* The clock advances by one unit: every playing track has played one unit more
\* and every render loop will see one unit more elapsed.
Tick ==
    /\ \E r \in Runs : Advancing(runs[r])
    /\ runs' = [r \in Runs |->
                   IF Advancing(runs[r])
                   THEN [runs[r] EXCEPT !.elapsed = @ + 1]
                   ELSE runs[r]]
    /\ UNCHANGED <<page, mapping, hasWindow, stopThrows, isRendering, error, recorderRef, cancelThrew,
                   urls>>

\* onended that also resolves the promise itself, without waiting for the
\* recorder's stopped signal.
AfterEndedResolves(run) ==
    LET r1 == RecorderStop(Log([run EXCEPT !.audio = "ended"], <<"audioEnded">>))
    IN  Log([r1 EXCEPT !.ctx = "closed", !.handle = Resolve(@, 0, run.duration)],
            <<"close", "resolve">>)

\* The run after audioSource.onended ran: recorder.stop(), then audioContext.close()
\* unless stop() threw.
AfterEnded(run) ==
    LET r1 == Log([run EXCEPT !.audio = "ended"], <<"audioEnded">>)
    IN  IF StopRaises(r1)
        THEN RecorderStop(r1)
        ELSE Log([RecorderStop(r1) EXCEPT !.ctx = "closed"], <<"close">>)

\* audioSource.onended: the track has played to its end.
OnAudioEnded(r) ==
    /\ runs[r].audio = "playing"
    /\ runs[r].elapsed = runs[r].duration
    /\ runs' = [runs EXCEPT ![r] = AfterEnded(@)]
    /\ UNCHANGED <<page, mapping, hasWindow, stopThrows, isRendering, error, recorderRef, cancelThrew,
                   urls>>

\* onstop that reports the time played so far instead of the decoded duration.
AfterStopElapsed(run, url) ==
    Log([run EXCEPT !.rec = "stopped", !.blob = Blob(run.recordedChunks),
                    !.handle = Resolve(@, url, run.elapsed)],
        <<"onstop", "resolve">>)

\* The run after recorder.onstop ran with object URL `url`.
AfterStop(run, url) ==
    Log([run EXCEPT !.rec = "stopped", !.blob = Blob(run.recordedChunks),
                    !.handle = Resolve(@, url, run.duration)],
        <<"onstop", "resolve">>)

\* onstop that leaves isRendering as it is.
OnStopKeepsRendering(r) ==
    /\ runs[r].rec = "stopping"
    /\ urls' = urls + 1
    /\ runs' = [runs EXCEPT ![r] = AfterStop(@, urls + 1)]
    /\ UNCHANGED <<page, mapping, hasWindow, stopThrows, isRendering, error, recorderRef, cancelThrew>>

\* recorder.onstop: the recorder delivers its stopped signal.
OnStop(r) ==
    /\ runs[r].rec = "stopping"
    /\ urls' = urls + 1
    /\ isRendering' = FALSE
    /\ runs' = [runs EXCEPT ![r] = AfterStop(@, urls + 1)]
    /\ UNCHANGED <<page, mapping, hasWindow, stopThrows, error, recorderRef, cancelThrew>>

\* onerror that sets the state but never rejects the promise.
AfterErrorNoReject(run, e) ==
    Log([run EXCEPT !.rec = "stopping"], <<"onerror">>)

\* The run after recorder.onerror ran with event.error.message e; the recorder has
\* gone inactive and its stopped signal is due.
AfterError(run, e) ==
    Log([run EXCEPT !.rec = "stopping",
                    !.handle = Reject(@, RecorderMessage(e))],
        <<"onerror", "reject">>)

\* recorder.onerror: the recorder fails while recording.
OnError(r, e) ==
    /\ runs[r].rec = "recording"
    /\ isRendering' = FALSE
    /\ error' = RecorderMessage(e)
    /\ runs' = [runs EXCEPT ![r] = AfterError(@, e)]
    /\ UNCHANGED <<page, mapping, hasWindow, stopThrows, recorderRef, cancelThrew, urls>>

\* ondataavailable that puts the chunk at the front of the list.
RecordChunkAtFront(run, c) ==
    [run EXCEPT !.emitted = Append(@, c),
                !.recordedChunks = IF Len(c) > 0 THEN <<c>> \o @ ELSE @]

\* The run after recorder.ondataavailable ran with a chunk of bytes c: the chunk
\* is pushed only if event.data.size > 0. `emitted` keeps what the recorder delivered.
RecordChunk(run, c) ==
    [run EXCEPT !.emitted = Append(@, c),
                !.recordedChunks = IF Len(c) > 0 THEN Append(@, c) ELSE @]

\* recorder.ondataavailable: the recorder delivers a chunk, every 250 ms while it
\* records and once more between going inactive and its stopped signal.
DataAvailable(r, c) ==
    /\ runs[r].rec \in {"recording", "stopping"}
    /\ Len(runs[r].emitted) < MaxChunks
    /\ runs' = [runs EXCEPT ![r] = RecordChunk(@, c)]
    /\ UNCHANGED <<page, mapping, hasWindow, stopThrows, isRendering, error, recorderRef, cancelThrew,
                   urls>>

\* A pass of renderLoop that schedules the next pass whatever time has elapsed.
AfterFrameAlwaysSchedules(run) ==
    [run EXCEPT !.drawnAt = run.elapsed, !.loop = "scheduled"]

\* The run after one pass of renderLoop: the frame for the elapsed time is drawn and
\* the next pass is requested only if elapsed < audioBuffer.duration * 1000.
AfterFrame(run) ==
    [run EXCEPT !.drawnAt = run.elapsed,
                !.loop = IF run.elapsed < run.duration THEN "scheduled" ELSE "stopped"]

\* renderLoop called back by requestAnimationFrame.
RenderFrame(r) ==
    /\ runs[r].loop = "scheduled"
    /\ runs' = [runs EXCEPT ![r] = AfterFrame(@)]
    /\ UNCHANGED <<page, mapping, hasWindow, stopThrows, isRendering, error, recorderRef, cancelThrew,
                   urls>>

\* cancel() that also ends playback and the render loop.
CancelStopsAll(run) ==
    RecorderStop([run EXCEPT !.cancelled = (run.cancelled \/ run.rec = "recording"),
                             !.audio = IF run.audio = "playing" THEN "ended" ELSE run.audio,
                             !.loop = IF run.loop = "scheduled" THEN "stopped" ELSE run.loop])

\* The run after cancel() invoked stop() on its recorder.
CancelStop(run) ==
    RecorderStop([run EXCEPT !.cancelled = (run.cancelled \/ run.rec = "recording")])

\* state.cancel(): recorderRef.current?.stop()
Cancel ==
    /\ IF recorderRef = 0
       THEN UNCHANGED <<runs, cancelThrew>>
       ELSE /\ runs[recorderRef].rec # "recording" =>
                   runs[recorderRef].staleStops < MaxStaleStops
            /\ runs' = [runs EXCEPT ![recorderRef] = CancelStop(@)]
            /\ cancelThrew' = (cancelThrew \/ StopRaises(runs[recorderRef]))
    /\ UNCHANGED <<page, mapping, hasWindow, stopThrows, isRendering, error, recorderRef, urls>>

----------------------------------------------------------------------------

Init ==
    /\ hasWindow \in BOOLEAN
    /\ stopThrows \in BOOLEAN
    /\ isRendering = FALSE
    /\ error = NoMsg
    /\ recorderRef = 0
    /\ runs = [r \in Runs |-> NoRun]
    /\ cancelThrew = FALSE
    /\ urls = 0
    /\ mapping = NoMapping
    /\ page = NoPage

Next ==
    \/ Cancel
    \/ Tick
    \/ \E r \in Runs :
          \/ ComposeNoWindow(r)
          \/ ComposeNoCanvas(r)
          \/ ComposeStart(r)
          \/ ResumeDone(r)
          \/ AtobFail(r)
          \/ \E m \in DecodeMsgs : DecodeFail(r, m)
          \/ \E d \in Durations : RecorderCtorFail(r, d)
          \/ \E d \in Durations : StartOk(r, d)
          \/ \E d \in Durations, which \in DOMAIN StartErrors : StartFail(r, d, which)
          \/ OnAudioEnded(r)
          \/ OnStop(r)
          \/ \E e \in RecorderErrors : OnError(r, e)

Spec == Init /\ [][Next]_vars

\* The stopped signal is delivered to every recorder that has gone inactive: the
\* browser's event loop runs the queued "stop" task.
FairSpec == Spec /\ \A r \in Runs : WF_vars(OnStop(r))

----------------------------------------------------------------------------
\* One run with its render loop. The loop is a closure of one compose() call: it
\* reads only that call's renderStart, duration and segments and writes only the
\* canvas, so it is followed for one run; the recorder, cancel() and the track
\* move as in Spec, where a scheduled loop is never called back.

RunNext ==
    \/ Cancel
    \/ Tick
    \/ ComposeNoWindow(1)
    \/ ComposeNoCanvas(1)
    \/ ComposeStart(1)
    \/ ResumeDone(1)
    \/ AtobFail(1)
    \/ \E m \in DecodeMsgs : DecodeFail(1, m)
    \/ \E d \in Durations : RecorderCtorFail(1, d)
    \/ \E d \in Durations : StartOk(1, d)
    \/ \E d \in Durations, which \in DOMAIN StartErrors : StartFail(1, d, which)
    \/ OnAudioEnded(1)
    \/ OnStop(1)
    \/ RenderFrame(1)
    \/ \E e \in RecorderErrors : OnError(1, e)

\* Time advances, the browser calls back every requested animation frame, a track
\* that has played to its end delivers its end-of-playback signal and a recorder
\* that has gone inactive delivers its stopped signal.
LiveSpec ==
    /\ Init
    /\ [][RunNext]_vars
    /\ WF_vars(Tick)
    /\ WF_vars(OnStop(1))
    /\ WF_vars(OnAudioEnded(1))
    /\ WF_vars(RenderFrame(1))

----------------------------------------------------------------------------
\* One run with the chunks its recorder delivers. recordedChunks is local to a
\* compose() call and only onstop of the same call reads it, so the chunks of one
\* run are followed on their own, beside everything else the run does.

Chunks == {<<>>, <<1>>, <<2, 3>>}

ChunkNext ==
    \/ RunNext
    \/ \E c \in Chunks : DataAvailable(1, c)

ChunkSpec == Init /\ [][ChunkNext]_vars

----------------------------------------------------------------------------
\* One run with the calls of cancel() it was active for kept on record. A call of
\* cancel() before any recorder exists changes nothing, so the run remembers in
\* cancelSeen that cancel() was called while it was rendering and unsettled.

Seen(run) == [run EXCEPT !.cancelSeen = (run.cancelSeen \/ (Active(run) /\ isRendering))]

\* state.cancel(): recorderRef.current?.stop(), with the call put on record.
CancelObserved ==
    /\ IF recorderRef = 0
       THEN /\ runs' = [r \in Runs |-> Seen(runs[r])]
            /\ UNCHANGED cancelThrew
       ELSE /\ runs[recorderRef].rec # "recording" =>
                   runs[recorderRef].staleStops < MaxStaleStops
            /\ runs' = [r \in Runs |->
                           IF r = recorderRef THEN CancelStop(Seen(runs[r]))
                           ELSE Seen(runs[r])]
            /\ cancelThrew' = (cancelThrew \/ StopRaises(runs[recorderRef]))
    /\ UNCHANGED <<page, mapping, hasWindow, stopThrows, isRendering, error, recorderRef, urls>>

\* An awaited step of compose() completes, with either outcome.
AwaitSettles(r) ==
    \/ ResumeDone(r)
    \/ AtobFail(r)
    \/ \E m \in DecodeMsgs : DecodeFail(r, m)
    \/ \E d \in Durations : RecorderCtorFail(r, d)
    \/ \E d \in Durations : StartOk(r, d)
    \/ \E d \in Durations, which \in DOMAIN StartErrors : StartFail(r, d, which)

CancelNext ==
    \/ CancelObserved
    \/ Tick
    \/ ComposeNoWindow(1)
    \/ ComposeNoCanvas(1)
    \/ ComposeStart(1)
    \/ AwaitSettles(1)
    \/ OnAudioEnded(1)
    \/ OnStop(1)
    \/ RenderFrame(1)
    \/ \E e \in RecorderErrors : OnError(1, e)

\* What compose() awaits settles, time advances, animation frames are called back
\* and a recorder that has gone inactive delivers its stopped signal. Only the
\* track's end-of-playback signal is not promised: a run must not depend on it
\* once cancel() was called.
CancelSpec ==
    /\ Init
    /\ [][CancelNext]_vars
    /\ WF_vars(AwaitSettles(1))
    /\ WF_vars(Tick)
    /\ WF_vars(RenderFrame(1))
    /\ WF_vars(OnStop(1))

----------------------------------------------------------------------------
\* One run with every event it waits for delivered: awaited steps complete, time
\* advances, animation frames are called back, the track delivers its
\* end-of-playback signal and the recorder its stopped signal.

TeardownSpec ==
    /\ Init
    /\ [][RunNext]_vars
    /\ WF_vars(AwaitSettles(1))
    /\ WF_vars(Tick)
    /\ WF_vars(OnStop(1))
    /\ WF_vars(OnAudioEnded(1))
    /\ WF_vars(RenderFrame(1))

----------------------------------------------------------------------------
\* The Home page driving the composer: form submissions, the plan/voiceover
\* request, the compose() call and what follows its promise. The page runs in a
\* browser and never calls cancel().

\* disabled={composerState.isRendering || step === "rendering"}
SubmitDisabled == isRendering \/ page.step = "rendering"

\* handleSubmit up to its first await: setStep("planning"), fetch sent.
Submit(p) ==
    /\ ~SubmitDisabled
    /\ page.pipes[p].pc = "idle"
    /\ IF p = 1 THEN TRUE ELSE page.pipes[p - 1].pc # "idle"
    /\ page' = [page EXCEPT !.step = "planning", !.pipes[p].pc = "planning"]
    /\ UNCHANGED <<mapping, hasWindow, stopThrows, isRendering, error, recorderRef, runs,
                   cancelThrew, urls>>

\* The request fails or answers with an error status: the catch block of handleSubmit.
FetchFail(p) ==
    /\ page.pipes[p].pc = "planning"
    /\ page' = [page EXCEPT !.step = "error", !.pipes[p].pc = "done"]
    /\ UNCHANGED <<mapping, hasWindow, stopThrows, isRendering, error, recorderRef, runs,
                   cancelThrew, urls>>

\* The promise of compose() has settled: setStep("complete"), or the catch block.
Continue(p) ==
    /\ page.pipes[p].pc = "rendering"
    /\ runs[page.pipes[p].run].handle.state # "pending"
    /\ page' = [page EXCEPT
                   !.step = IF runs[page.pipes[p].run].handle.state = "resolved"
                            THEN "complete" ELSE "error",
                   !.pipes[p].pc = "done"]
    /\ UNCHANGED <<mapping, hasWindow, stopThrows, isRendering, error, recorderRef, runs,
                   cancelThrew, urls>>

PageInit ==
    /\ hasWindow = TRUE
    /\ stopThrows \in BOOLEAN
    /\ isRendering = FALSE
    /\ error = NoMsg
    /\ recorderRef = 0
    /\ runs = [r \in Runs |-> NoRun]
    /\ cancelThrew = FALSE
    /\ urls = 0
    /\ mapping = NoMapping
    /\ page = [NoPage EXCEPT !.on = TRUE]

PageNext ==
    \/ \E p \in Pipes :
          \/ Submit(p)
          \/ FetchFail(p)
          \/ Continue(p)
    \/ Tick
    \/ \E r \in Runs :
          \/ ComposeNoCanvas(r)
          \/ ComposeStart(r)
          \/ ResumeDone(r)
          \/ AtobFail(r)
          \/ \E m \in DecodeMsgs : DecodeFail(r, m)
          \/ \E d \in Durations : RecorderCtorFail(r, d)
          \/ \E d \in Durations : StartOk(r, d)
          \/ \E d \in Durations, which \in DOMAIN StartErrors : StartFail(r, d, which)
          \/ OnAudioEnded(r)
          \/ OnStop(r)
          \/ \E e \in RecorderErrors : OnError(r, e)

PageSpec == PageInit /\ [][PageNext]_vars

----------------------------------------------------------------------------
\* The timing mapper and the active-segment choice on their own: every segment
\* list and total duration within the bounds, and the examples of the
\* specification, each mapped once and then sampled at elapsed times.

WeightLists == UNION {[1..n -> 0..MaxWeight] : n \in 0..MaxSegments}
Totals == 0..MaxTotal

MappingInputs ==
    {[NoMapping EXCEPT !.pc = "input", !.weights = w, !.total = t] :
        w \in WeightLists, t \in Totals}
    \cup {[NoMapping EXCEPT !.pc = "input", !.weights = <<4, 6>>, !.total = 12000],
          [NoMapping EXCEPT !.pc = "input", !.weights = <<5>>, !.total = 5000],
          [NoMapping EXCEPT !.pc = "input", !.weights = <<4, 6, 0>>, !.total = 12000]}

\* The elapsed times sampled: the small ones, the total and one past it, and every
\* whole-numbered window boundary with the time just before it.
ElapsedSamples(m) ==
    LET ends == {m.segments[i].window[2] : i \in DOMAIN m.segments}
        whole == {x.n \div x.d : x \in {y \in ends : ~y.nan /\ y.n % y.d = 0}}
    IN  (0..(MaxTotal + 1)) \cup {m.total, m.total + 1} \cup whole
        \cup {b - 1 : b \in whole \ {0}}

\* const hueBase = Math.floor(Math.random() * 360)
\* const segments = mapSegmentsToDuration(payload, audioBuffer.duration * 1000)
MapSegments ==
    /\ mapping.pc = "input"
    /\ \E h \in HueBases :
          mapping' = [mapping EXCEPT !.pc = "mapped", !.hueBase = h,
                         !.segments = mapSegmentsToDuration(mapping.weights, mapping.total)]
    /\ UNCHANGED <<page, hasWindow, stopThrows, isRendering, error, recorderRef, runs,
                   cancelThrew, urls>>

\* One pass of renderLoop at elapsed time e: the active segment is chosen and its
\* index read, which throws a TypeError when there is no segment at all; otherwise
\* the hue of the frame is computed from it.
SelectActive(e) ==
    /\ mapping.pc \in {"mapped", "selected"}
    /\ mapping' = [mapping EXCEPT !.pc = "selected", !.elapsed = e,
                      !.active = ActiveIndex(mapping.segments, e),
                      !.threw = (ActiveIndex(mapping.segments, e) = -1),
                      !.hue = IF ActiveIndex(mapping.segments, e) = -1 THEN -1
                              ELSE Hue(mapping.hueBase, ActiveIndex(mapping.segments, e))]
    /\ UNCHANGED <<page, hasWindow, stopThrows, isRendering, error, recorderRef, runs,
                   cancelThrew, urls>>

MapInit ==
    /\ hasWindow = TRUE
    /\ stopThrows = FALSE
    /\ isRendering = FALSE
    /\ error = NoMsg
    /\ recorderRef = 0
    /\ runs = [r \in Runs |-> NoRun]
    /\ cancelThrew = FALSE
    /\ urls = 0
    /\ mapping \in MappingInputs
    /\ page = NoPage

MapNext ==
    \/ MapSegments
    \/ \E e \in ElapsedSamples(mapping) : SelectActive(e)

MapSpec == MapInit /\ [][MapNext]_vars

----------------------------------------------------------------------------
\* Reading a run's event trace.

Has(run, ev) == \E i \in DOMAIN run.trace : run.trace[i] = ev
Count(run, ev) == Cardinality({i \in DOMAIN run.trace : run.trace[i] = ev})
\* Position of the first ev of the trace; 0 when there is none.
First(run, ev) ==
    IF Has(run, ev)
    THEN CHOOSE i \in DOMAIN run.trace :
            /\ run.trace[i] = ev
            /\ \A j \in 1..(i - 1) : run.trace[j] # ev
    ELSE 0

Settled(run) == run.handle.state \in {"resolved", "rejected"}

\* The run resolved without cancel() reaching its recorder and without a recorder error.
NormalCompletion(run) ==
    /\ run.handle.state = "resolved"
    /\ ~run.cancelled
    /\ ~Has(run, "onerror")

\* cancel() invoked stop() on the run's recorder while it was recording.
CancelledWhileRecording(run) == run.cancelled

----------------------------------------------------------------------------
\* C1: in a run that completes normally the audio end-of-playback signal comes
\* before recorder.stop() is invoked, the stopped signal comes after that, and
\* the promise is resolved only after the stopped signal; no promise is ever
\* resolved before its recorder's stopped signal was delivered.
C1_OrderingChain ==
    \A r \in Runs :
        /\ NormalCompletion(runs[r]) =>
              /\ 0 < First(runs[r], "audioEnded")
              /\ First(runs[r], "audioEnded") < First(runs[r], "stop")
              /\ First(runs[r], "stop") < First(runs[r], "onstop")
              /\ First(runs[r], "onstop") < First(runs[r], "resolve")
              /\ Count(runs[r], "stop") = 1
              /\ Count(runs[r], "onstop") = 1
        /\ runs[r].handle.state = "resolved" =>
              /\ 0 < First(runs[r], "onstop")
              /\ First(runs[r], "onstop") < First(runs[r], "resolve")

C1_Witness == \E r \in Runs : NormalCompletion(runs[r])

OnNormalPath(run) ==
    /\ run.handle.state = "pending"
    /\ Has(run, "audioEnded")
    /\ ~run.cancelled
    /\ ~Has(run, "onerror")

\* C3: on the normal path the delivery of the stopped signal resolves the promise
\* with durationSeconds = the decoded duration and a newly created object URL,
\* and isRendering is false in the state in which the promise is resolved.
C3_NormalResult ==
    [][\A r \in Runs :
          (OnNormalPath(runs[r]) /\ runs'[r].rec = "stopped" /\ runs[r].rec # "stopped") =>
              /\ runs'[r].handle.state = "resolved"
              /\ runs'[r].handle.durationSeconds = runs[r].duration
              /\ runs'[r].handle.videoUrl = urls'
              /\ urls' = urls + 1
              /\ isRendering' = FALSE]_vars

C3_Witness ==
    \E r \in Runs :
        /\ NormalCompletion(runs[r])
        /\ runs[r].handle.durationSeconds = runs[r].duration
        /\ runs[r].handle.videoUrl > 0
        /\ isRendering = FALSE

\* C4: when cancel() stops the recorder of a run that is recording, the run's
\* promise is never rejected, it is resolved once the stopped signal is delivered
\* (and so eventually), and the result carries the full decoded duration however
\* little of the track had played.
C4_CancelResolvesFullDuration ==
    /\ [](\A r \in Runs :
             CancelledWhileRecording(runs[r]) =>
                 /\ runs[r].handle.state # "rejected"
                 /\ runs[r].rec = "stopped" => runs[r].handle.state = "resolved"
                 /\ runs[r].handle.state = "resolved" =>
                        runs[r].handle.durationSeconds = runs[r].duration)
    /\ \A r \in Runs :
          CancelledWhileRecording(runs[r]) ~> (runs[r].handle.state = "resolved")

\* Cancelled before the track had played to its end, and resolved.
C4_Witness ==
    \E r \in Runs :
        /\ CancelledWhileRecording(runs[r])
        /\ runs[r].handle.state = "resolved"
        /\ runs[r].elapsed < runs[r].duration
        /\ runs[r].handle.durationSeconds = runs[r].duration

\* C5 (as claimed): cancel() with no active run invokes stop() on no recorder,
\* raises nothing and leaves isRendering, error and every run as they were.
C5_CancelIdleIsNoop ==
    [][(Cancel /\ ~AnyActive) =>
          /\ runs' = runs
          /\ isRendering' = isRendering
          /\ error' = error
          /\ cancelThrew' = FALSE]_vars

\* compose() is called for run r in this step.
ComposeCalled(r) == runs[r].pc = "idle" /\ runs'[r].pc # "idle"

\* C6 (as claimed): a compose() call made while a run is active is rejected at
\* once, and the recorder reference of an active run is never replaced.
C6_SecondComposeRejected ==
    [][\A r \in Runs :
          /\ (ComposeCalled(r) /\ AnyActive) =>
                /\ runs'[r].handle.state = "rejected"
                /\ recorderRef' = recorderRef
                /\ isRendering' = isRendering
                /\ \A q \in Runs \ {r} : runs'[q] = runs[q]
          /\ (Active(runs[r]) /\ recorderRef = r) => recorderRef' = r]_vars

\* C7 (as claimed): a decode failure rejects with the failure's message and leaves
\* isRendering = false and error = that message, recorder and playback not started.
C7_DecodeFailureState ==
    [][\A r \in Runs : \A m \in DecodeMsgs :
          DecodeFail(r, m) =>
              /\ runs'[r].handle.state = "rejected"
              /\ runs'[r].handle.message = m
              /\ runs'[r].rec = "none"
              /\ runs'[r].audio = "none"
              /\ isRendering' = FALSE
              /\ error' = m]_vars

\* C8: a recorder error rejects the promise with the failure's message (the
\* default one when the event carries none), sets error to it and isRendering to
\* false; afterwards the promise of that run never changes, and neither its
\* stopped signal nor its audio end changes error.
C8_RecorderErrorFails ==
    [][\A r \in Runs :
          /\ \A e \in RecorderErrors :
                OnError(r, e) =>
                    /\ runs'[r].handle.state = "rejected"
                    /\ runs'[r].handle.message = (IF e = "" THEN "MediaRecorder error" ELSE e)
                    /\ error' = runs'[r].handle.message
                    /\ isRendering' = FALSE
          /\ Has(runs[r], "onerror") =>
                /\ runs'[r].handle = runs[r].handle
                /\ runs[r].handle.state = "rejected"
                /\ (OnStop(r) \/ OnAudioEnded(r)) => error' = error]_vars

\* A failed run that has since received its stopped signal and its audio end.
C8_Witness ==
    \E r \in Runs :
        /\ Has(runs[r], "onerror")
        /\ Has(runs[r], "onstop")
        /\ Has(runs[r], "audioEnded")
        /\ runs[r].handle.state = "rejected"

\* C9 (as claimed): when a run's promise is rejected, the audio context it created
\* is closed and the recorder it started is no longer recording.
C9_TornDownBeforeReject ==
    \A r \in Runs :
        runs[r].handle.state = "rejected" =>
            /\ runs[r].ctx # "running"
            /\ runs[r].rec # "recording"

\* C10 (as claimed): without a 2D context compose() rejects with the precondition
\* message, creates no audio context and no recorder, and leaves isRendering =
\* false and error = that message.
C10_NoCanvasState ==
    [][\A r \in Runs :
          ComposeNoCanvas(r) =>
              /\ runs'[r].handle.state = "rejected"
              /\ runs'[r].handle.message = NoCanvasMsg
              /\ runs'[r].ctx = "none"
              /\ runs'[r].rec = "none"
              /\ isRendering' = FALSE
              /\ error' = NoCanvasMsg]_vars

----------------------------------------------------------------------------
\* Claims about the timing mapper and the active-segment choice (MapSpec).

Mapped == mapping.pc \in {"mapped", "selected"}
WeightSum == SumTo(mapping.weights, Len(mapping.weights))

\* C13: for a non-empty segment list of weights >= 0 with positive sum W and a
\* total duration T, the mapper returns one window per segment in input order;
\* the first starts at 0, each ends where the next starts, no window ends before
\* it starts, the last ends at T and window i is w_i / W * T wide. Weights [4, 6]
\* with T = 12000 give [0, 4800) and [4800, 12000); one segment gives [0, T).
C13_PartitionLaw ==
    LET n == Len(mapping.weights)
        segs == mapping.segments
        T == mapping.total
    IN  (Mapped /\ n >= 1 /\ WeightSum > 0) =>
            /\ Len(segs) = n
            /\ \A i \in 1..n :
                  /\ segs[i].index = i - 1
                  /\ segs[i].weight = mapping.weights[i]
                  /\ NumLeq(segs[i].window[1], segs[i].window[2])
                  /\ LET a == segs[i].window[1]
                         b == segs[i].window[2]
                     IN  (b.n * a.d - a.n * b.d) * WeightSum
                            = mapping.weights[i] * T * a.d * b.d
            /\ IsInt(segs[1].window[1], 0)
            /\ \A i \in 1..(n - 1) : NumEq(segs[i].window[2], segs[i + 1].window[1])
            /\ IsInt(segs[n].window[2], T)
            /\ (mapping.weights = <<4, 6>> /\ T = 12000) =>
                  /\ IsInt(segs[1].window[2], 4800)
                  /\ IsInt(segs[2].window[1], 4800)
            /\ n = 1 => (IsInt(segs[1].window[1], 0) /\ IsInt(segs[1].window[2], T))

\* The example of the specification has been mapped.
C13_Witness ==
    /\ Mapped
    /\ mapping.weights = <<4, 6>>
    /\ mapping.total = 12000
    /\ IsInt(mapping.segments[1].window[2], 4800)
    /\ IsInt(mapping.segments[2].window[2], 12000)

\* C14 (as claimed): the mapper returns no result for an empty segment list and
\* none computed with a zero weight sum.
C14_NoZeroSumResult == Mapped => (Len(mapping.weights) > 0 /\ WeightSum > 0)

\* C15 (as claimed): an elapsed time equal to the end of a window that is not the
\* last selects the next segment.
C15_EndSelectsNext ==
    mapping.pc = "selected" =>
        \A i \in 1..(Len(mapping.segments) - 1) :
            IsInt(mapping.segments[i].window[2], mapping.elapsed) => mapping.active = i

\* C15 (amended): the active segment is the first whose window has
\* start <= elapsed < end and, when there is none, the last (none at all for an
\* empty list). An elapsed time equal to the end of a window that is not the last
\* never selects that segment or an earlier one; it selects the next segment
\* whenever the next window is not empty.
C15_HalfOpenFirstMatch ==
    LET segs == mapping.segments
        e == mapping.elapsed
        n == Len(segs)
        matches == {i \in 1..n : ElapsedGeq(e, segs[i].window[1])
                                    /\ ElapsedLt(e, segs[i].window[2])}
    IN  mapping.pc = "selected" =>
            /\ \A i \in matches :
                  (\A j \in matches : i <= j) => mapping.active = segs[i].index
            /\ matches = {} => mapping.active = n - 1
            /\ \A i \in 1..(n - 1) :
                  IsInt(segs[i].window[2], e) =>
                      /\ mapping.active >= i
                      /\ (~NumEq(segs[i + 1].window[1], segs[i + 1].window[2]))
                            => mapping.active = i

\* The loop sampled the example exactly at the end of its first window and chose
\* the second segment.
C15_Witness ==
    /\ mapping.pc = "selected"
    /\ mapping.weights = <<4, 6>>
    /\ mapping.total = 12000
    /\ mapping.elapsed = 4800
    /\ mapping.active = 1

\* C17 (as claimed): a segment of weight zero gets a window with start = end, and
\* it is the active segment only if it is the last of the list and elapsed has
\* reached the boundary before it.
C17_ZeroWeightSegments ==
    Mapped =>
        \A i \in 1..Len(mapping.weights) :
            mapping.weights[i] = 0 =>
                /\ NumEq(mapping.segments[i].window[1], mapping.segments[i].window[2])
                /\ (mapping.pc = "selected" /\ mapping.active = i - 1) =>
                      /\ i = Len(mapping.weights)
                      /\ ElapsedGeq(mapping.elapsed, mapping.segments[i].window[1])

----------------------------------------------------------------------------
\* Claims about the render loop and cancel().

\* A pass of run r's render loop: the loop was scheduled and a frame is drawn for
\* a new elapsed time or the loop is no longer scheduled afterwards.
FramePass(r) ==
    /\ runs[r].loop = "scheduled"
    /\ runs'[r].drawnAt # runs[r].drawnAt \/ runs'[r].loop # "scheduled"

\* C18: every pass of the render loop draws the frame for the elapsed time it
\* observes and leaves the loop scheduled exactly when elapsed < duration; no other
\* step, whatever happens to the recorder or the promise, ends or restarts the
\* loop; a stopped loop stays stopped with its final frame drawn at elapsed =
\* duration; and with time advancing every scheduled loop stops.
C18_RenderLoopTerminates ==
    /\ [][\A r \in Runs :
            /\ FramePass(r) =>
                  /\ runs'[r].drawnAt = runs[r].elapsed
                  /\ runs'[r].loop = IF runs[r].elapsed < runs[r].duration
                                     THEN "scheduled" ELSE "stopped"
            /\ runs[r].loop = "stopped" =>
                  /\ runs'[r].loop = "stopped"
                  /\ runs'[r].drawnAt = runs[r].drawnAt]_vars
    /\ [](\A r \in Runs : runs[r].loop = "stopped" => runs[r].drawnAt = runs[r].duration)
    /\ \A r \in Runs : (runs[r].loop = "scheduled") ~> (runs[r].loop = "stopped")

\* A loop that stopped by its own check after the run's promise was resolved and
\* before the track delivered its end-of-playback signal.
C18_Witness ==
    \E r \in Runs :
        /\ runs[r].loop = "stopped"
        /\ runs[r].drawnAt = runs[r].duration
        /\ runs[r].handle.state = "resolved"
        /\ runs[r].rec = "stopped"
        /\ runs[r].audio = "playing"

\* C19: a call of cancel() changes nothing of any run but its recorder: playback,
\* the audio context, the render loop, the clock and the promise are as before.
\* Afterwards the track of a cancelled run still plays to its end and delivers its
\* end-of-playback signal, and its render loop runs until its own check at
\* elapsed = duration.
C19_CancelOnlyStopsRecorder ==
    /\ [][Cancel =>
            \A r \in Runs :
                /\ runs'[r].audio = runs[r].audio
                /\ runs'[r].ctx = runs[r].ctx
                /\ runs'[r].loop = runs[r].loop
                /\ runs'[r].drawnAt = runs[r].drawnAt
                /\ runs'[r].elapsed = runs[r].elapsed
                /\ runs'[r].handle = runs[r].handle]_vars
    /\ [](\A r \in Runs :
            runs[r].cancelled =>
                /\ runs[r].audio \in {"playing", "ended"}
                /\ runs[r].loop \in {"scheduled", "stopped"}
                /\ runs[r].audio = "ended" => runs[r].elapsed = runs[r].duration)
    /\ \A r \in Runs :
          runs[r].cancelled
              ~> (/\ runs[r].audio = "ended"
                  /\ runs[r].loop = "stopped"
                  /\ runs[r].drawnAt = runs[r].duration)

\* A run cancelled before its track had played to the end, whose track has since
\* ended and whose render loop has since stopped.
C19_Witness ==
    \E r \in Runs :
        /\ runs[r].cancelled
        /\ Has(runs[r], "audioEnded")
        /\ runs[r].audio = "ended"
        /\ runs[r].loop = "stopped"
        /\ runs[r].handle.durationSeconds = runs[r].duration

\* C11: a compose() call where there is no window is rejected in the same step
\* with the precondition message; isRendering, error and the recorder reference
\* are what they were, and the run never has an audio context, a recorder, a
\* playing track or a render loop.
C11_NoWindowFailsFast ==
    /\ [][\A r \in Runs :
            (ComposeCalled(r) /\ ~hasWindow) =>
                /\ runs'[r].handle.state = "rejected"
                /\ runs'[r].handle.message = NoWindowMsg
                /\ runs'[r].trace = <<"reject">>
                /\ isRendering' = isRendering
                /\ error' = error
                /\ recorderRef' = recorderRef]_vars
    /\ [](\A r \in Runs :
            runs[r].handle.message = NoWindowMsg =>
                /\ runs[r].ctx = "none"
                /\ runs[r].rec = "none"
                /\ runs[r].audio = "none"
                /\ runs[r].loop = "none"
                /\ runs[r].drawnAt = -1)

\* Two calls where there is no window, both rejected with the precondition message.
C11_Witness ==
    /\ ~hasWindow
    /\ \A r \in Runs :
          /\ runs[r].handle.state = "rejected"
          /\ runs[r].handle.message = NoWindowMsg
    /\ isRendering = FALSE
    /\ error = NoMsg
    /\ recorderRef = 0

\* C20 (as claimed): while a run awaits audioContext.resume() or decodeAudioData,
\* or its recorder is recording, isRendering is true and error is null.
C20_RenderingWhileInFlight ==
    \A r \in Runs :
        (runs[r].pc \in {"resume", "decode"} \/ runs[r].rec = "recording") =>
            /\ isRendering = TRUE
            /\ error = NoMsg

\* A chunk that holds at least one byte.
NonEmpty(c) == Len(c) > 0

\* C12 (as claimed): every chunk the recorder delivers is in the run's chunk list,
\* in arrival order.
C12_EveryChunkAppended ==
    \A r \in Runs : runs[r].recordedChunks = runs[r].emitted

\* C12 (amended): the run's chunk list is the non-empty chunks the recorder has
\* delivered, in arrival order, none of them dropped; and the artifact built at the
\* stopped signal is the bytes of all delivered chunks in arrival order.
C12_ChunksInOrder ==
    \A r \in Runs :
        /\ runs[r].recordedChunks = SelectSeq(runs[r].emitted, NonEmpty)
        /\ runs[r].rec = "stopped" =>
              /\ runs[r].blob = Blob(runs[r].emitted)
              /\ runs[r].blob = Blob(runs[r].recordedChunks)

\* A stopped recorder that delivered two different chunks with an empty one
\* between them.
C12_Witness ==
    \E r \in Runs :
        /\ runs[r].rec = "stopped"
        /\ runs[r].emitted = << <<2, 3>>, <<>>, <<1>> >>
        /\ runs[r].recordedChunks = << <<2, 3>>, <<1>> >>
        /\ runs[r].blob = <<2, 3, 1>>

\* C16 (as claimed): a call of cancel() while a run is rendering and unsettled
\* stops that run's recorder if it is recording, and the run's promise then
\* settles, given that awaited steps complete, time advances and a stopped
\* recorder delivers its stopped signal: the track's end-of-playback signal is not
\* needed.
C16_CancelSettlesActiveRun ==
    /\ [][CancelObserved =>
            \A r \in Runs :
                (Active(runs[r]) /\ isRendering /\ runs[r].rec = "recording")
                    => runs'[r].rec = "stopping"]_vars
    /\ \A r \in Runs : runs[r].cancelSeen ~> Settled(runs[r])

----------------------------------------------------------------------------
\* C21: the hue of a frame is (hueBase + index * 32) mod 360 for the index of the
\* active segment and lies in 0..359; the base hue drawn for the run never changes
\* afterwards, and two passes with the same active segment compute the same hue.
C21_HueDeterminism ==
    /\ [](mapping.pc = "selected" /\ ~mapping.threw =>
            /\ mapping.hueBase \in 0..359
            /\ mapping.hue \in 0..359
            /\ \E k \in 0..1 :
                  mapping.hue + 360 * k = mapping.hueBase + mapping.active * 32)
    /\ [][mapping.pc \in {"mapped", "selected"} => mapping'.hueBase = mapping.hueBase]_vars
    /\ [][(mapping.pc = "selected" /\ mapping'.pc = "selected"
              /\ mapping'.active = mapping.active) => mapping'.hue = mapping.hue]_vars

\* A frame of the third segment whose hue has passed 360: 359 + 2 * 32 = 423, hue 63.
C21_Witness ==
    /\ mapping.pc = "selected"
    /\ mapping.hueBase = 359
    /\ mapping.active = 2
    /\ mapping.hue = 63

----------------------------------------------------------------------------
\* C22 (as claimed): stop() is invoked on a run's recorder at most once, and never
\* on a recorder that is not recording.
C22_StopOnlyWhileRecording ==
    \A r \in Runs :
        /\ runs[r].staleStops = 0
        /\ Count(runs[r], "stop") <= 1

\* C23 (as claimed): a run creates an object URL at most once and only when its
\* promise resolves, so there are as many object URLs as resolved runs and a run
\* that received its stopped signal is a resolved run.
C23_ArtifactOnlyWhenResolved ==
    /\ \A r \in Runs :
          /\ Count(runs[r], "onstop") <= 1
          /\ Has(runs[r], "onstop") => runs[r].handle.state = "resolved"
    /\ urls = Cardinality({r \in Runs : runs[r].handle.state = "resolved"})

----------------------------------------------------------------------------
\* C24 (as claimed): the page never has two compose() calls unsettled at once, and
\* no submission is accepted while an earlier handleSubmit is still in progress.
C24_OneComposeOutstanding ==
    /\ Cardinality({r \in Runs : Active(runs[r])}) <= 1
    /\ Cardinality({p \in Pipes : page.pipes[p].pc \in {"planning", "rendering"}}) <= 1

\* C25 (as claimed): every audio context a run creates is eventually closed.
C25_ContextEventuallyClosed ==
    \A r \in Runs : (runs[r].ctx = "running") ~> (runs[r].ctx = "closed")

====
